---- MODULE Spec2Model ----
(***************************************************************************)
(* Model of feedback_scanner.py: the report generator                      *)
(* get_fbla_feedback_report() and the __main__ entry point that prints the *)
(* report.  Text is modelled at the level of characters: a Python str is a *)
(* sequence of one-character strings, standard output is the sequence of   *)
(* writes made by print(), and json.dumps / json.loads are modelled by the *)
(* characters they produce and consume.                                    *)
(***************************************************************************)
EXTENDS Integers, Sequences, FiniteSets

\* ---------------------------------------------------------------- bounds
NumRuns == 2        \* runs of the program, interleaved
MaxCalls == 3       \* calls of the generator made by the importing caller
MaxMutations == 2   \* mutations the importing caller applies to returned reports

Runs == 1..NumRuns

\* ------------------------------------------------------------ characters
NL == "\n"
QUOTE == "\""
BACKSLASH == "\\"
SPACE == " "

\* Python's  s * n  for a one-character str s
Repeat(c, n) == [i \in 1..n |-> c]

\* --------------------------------------------------------- Python values
\* Every value has the same three fields so that values of different types
\* can be compared: t is the type, s the characters of a str, items the
\* elements of a list or the key/value pairs of a dict in insertion order.
PyStr(chars) == [t |-> "str", s |-> chars, items |-> <<>>]
PyList(elems) == [t |-> "list", s |-> <<>>, items |-> elems]
PyDict(pairs) == [t |-> "dict", s |-> <<>>, items |-> pairs]
PySet(elems) == [t |-> "set", s |-> <<>>, items |-> elems]
KV(key, val) == [k |-> key, v |-> val]

\* d[key] for a dict d that has the key
DictGet(d, key) == d.items[CHOOSE i \in 1..Len(d.items) : d.items[i].k = key].v

\* d[key] = val : replaces the value in place, or appends a new key
DictSet(d, key, val) ==
    IF \E i \in 1..Len(d.items) : d.items[i].k = key
    THEN PyDict([i \in 1..Len(d.items) |->
                   IF d.items[i].k = key THEN KV(key, val) ELSE d.items[i]])
    ELSE PyDict(Append(d.items, KV(key, val)))

\* ------------------------------------------------------ the report literal
\* two categories in the wrong order
SearchCategoriesSwapped ==
    PyList(<< PyStr(<<"E","v","e","n","t","s">>), PyStr(<<"E","n","g","a","g","e","m","e","n","t">>),
              PyStr(<<"J","u","d","g","i","n","g">>), PyStr(<<"L","o","g","i","s","t","i","c","s">>) >>)

\* lines 17-21
SearchCategories ==
    PyList(<< PyStr(<<"E","n","g","a","g","e","m","e","n","t">>), PyStr(<<"E","v","e","n","t","s">>),
              PyStr(<<"J","u","d","g","i","n","g">>), PyStr(<<"L","o","g","i","s","t","i","c","s">>) >>)

Metadata ==
    PyDict(<<
      KV(<<"s","o","u","r","c","e">>, PyStr(<<"R","e","d","d","i","t",","," ","F","B","L","A"," ","C","o","n","n","e","c","t",","," ","M","e","m","b","e","r"," ","F","o","r","u","m","s">>)),
      KV(<<"r","e","p","o","r","t","_","d","a","t","e">>, PyStr(<<"2","0","2","6","-","0","1","-","0","3">>)),
      KV(<<"s","e","a","r","c","h","_","c","a","t","e","g","o","r","i","e","s">>, SearchCategories) >>)

\* lines 23-28
Finding1 ==
    PyDict(<<
      KV(<<"c","a","t","e","g","o","r","y">>, PyStr(<<"E","v","e","n","t"," ","E","n","g","a","g","e","m","e","n","t">>)),
      KV(<<"i","s","s","u","e">>, PyStr(<<"D","i","s","o","r","g","a","n","i","z","e","d"," ","O","p","e","n","i","n","g","/","C","l","o","s","i","n","g"," ","c","e","r","e","m","o","n","i","e","s">>)),
      KV(<<"f","e","e","d","b","a","c","k">>, PyStr(<<"M","e","m","b","e","r","s"," ","f","e","e","l"," ","c","e","r","e","m","o","n","i","e","s"," ","a","r","e"," ","o","f","t","e","n"," ","t","o","o"," ","l","o","u","d"," ","o","r"," ","c","h","a","o","t","i","c",","," ","l","e","a","d","i","n","g"," ","t","o"," ","l","o","w"," ","e","n","g","a","g","e","m","e","n","t",".">>)),
      KV(<<"s","e","n","t","i","m","e","n","t">>, PyStr(<<"N","e","g","a","t","i","v","e">>)) >>)

\* lines 29-34
Finding2 ==
    PyDict(<<
      KV(<<"c","a","t","e","g","o","r","y">>, PyStr(<<"C","o","m","p","e","t","i","t","i","o","n">>)),
      KV(<<"i","s","s","u","e">>, PyStr(<<"J","u","d","g","i","n","g"," ","I","n","c","o","n","s","i","s","t","e","n","c","y">>)),
      KV(<<"f","e","e","d","b","a","c","k">>, PyStr(<<"C","o","n","c","e","r","n","s"," ","a","b","o","u","t"," ","j","u","d","g","e","s"," ","n","o","t"," ","f","o","l","l","o","w","i","n","g"," ","r","u","b","r","i","c","s"," ","s","t","r","i","c","t","l","y"," ","o","r"," ","b","e","i","n","g"," ","d","i","s","t","r","a","c","t","e","d"," ","b","y"," ","d","e","v","i","c","e","s",".">>)),
      KV(<<"s","e","n","t","i","m","e","n","t">>, PyStr(<<"C","r","i","t","i","c","a","l">>)) >>)

\* a label outside the vocabulary
Finding3Positive ==
    PyDict(<<
      KV(<<"c","a","t","e","g","o","r","y">>, PyStr(<<"N","e","t","w","o","r","k","i","n","g">>)),
      KV(<<"i","s","s","u","e">>, PyStr(<<"C","h","a","o","t","i","c"," ","P","i","n"," ","T","r","a","d","i","n","g">>)),
      KV(<<"f","e","e","d","b","a","c","k">>, PyStr(<<"P","i","n"," ","t","r","a","d","i","n","g"," ","i","s"," ","h","i","g","h","l","y"," ","p","o","p","u","l","a","r"," ","b","u","t"," ","o","f","t","e","n"," ","b","l","o","c","k","s"," ","h","a","l","l","w","a","y","s"," ","o","r"," ","l","a","c","k","s"," ","a"," ","d","e","s","i","g","n","a","t","e","d"," ","s","y","s","t","e","m",".">>)),
      KV(<<"s","e","n","t","i","m","e","n","t">>, PyStr(<<"P","o","s","i","t","i","v","e">>)) >>)

\* lines 35-40
Finding3 ==
    PyDict(<<
      KV(<<"c","a","t","e","g","o","r","y">>, PyStr(<<"N","e","t","w","o","r","k","i","n","g">>)),
      KV(<<"i","s","s","u","e">>, PyStr(<<"C","h","a","o","t","i","c"," ","P","i","n"," ","T","r","a","d","i","n","g">>)),
      KV(<<"f","e","e","d","b","a","c","k">>, PyStr(<<"P","i","n"," ","t","r","a","d","i","n","g"," ","i","s"," ","h","i","g","h","l","y"," ","p","o","p","u","l","a","r"," ","b","u","t"," ","o","f","t","e","n"," ","b","l","o","c","k","s"," ","h","a","l","l","w","a","y","s"," ","o","r"," ","l","a","c","k","s"," ","a"," ","d","e","s","i","g","n","a","t","e","d"," ","s","y","s","t","e","m",".">>)),
      KV(<<"s","e","n","t","i","m","e","n","t">>, PyStr(<<"M","i","x","e","d">>)) >>)

\* lines 41-46
Finding4 ==
    PyDict(<<
      KV(<<"c","a","t","e","g","o","r","y">>, PyStr(<<"L","o","g","i","s","t","i","c","s">>)),
      KV(<<"i","s","s","u","e">>, PyStr(<<"V","e","n","u","e"," ","N","a","v","i","g","a","t","i","o","n">>)),
      KV(<<"f","e","e","d","b","a","c","k">>, PyStr(<<"L","a","r","g","e"," ","c","o","n","f","e","r","e","n","c","e"," ","v","e","n","u","e","s"," ","c","a","n"," ","b","e"," ","c","o","n","f","u","s","i","n","g",","," ","m","a","k","i","n","g"," ","i","t"," ","h","a","r","d"," ","t","o"," ","f","i","n","d"," ","c","o","m","p","e","t","i","t","i","o","n"," ","r","o","o","m","s"," ","o","n"," ","t","i","m","e",".">>)),
      KV(<<"s","e","n","t","i","m","e","n","t">>, PyStr(<<"N","e","g","a","t","i","v","e">>)) >>)

\* a finding left out
FindingsThree == PyList(<< Finding1, Finding2, Finding4 >>)

\* lines 22-47
Findings == PyList(<< Finding1, Finding2, Finding3, Finding4 >>)

\* braces for brackets: a set display where the list display is
RecommendationsSet ==
    PySet(<<
      PyStr(<<"I","m","p","l","e","m","e","n","t"," ","a"," ","'","C","e","r","e","m","o","n","y"," ","F","o","c","u","s"," ","M","o","d","e","'"," ","t","o"," ","r","e","w","a","r","d"," ","a","t","t","e","n","t","i","o","n",".">>),
      PyStr(<<"C","r","e","a","t","e"," ","a"," ","'","D","i","g","i","t","a","l"," ","P","i","n"," ","M","a","r","k","e","t","p","l","a","c","e","'"," ","t","o"," ","s","u","p","p","l","e","m","e","n","t"," ","p","h","y","s","i","c","a","l"," ","t","r","a","d","i","n","g",".">>),
      PyStr(<<"P","r","o","v","i","d","e"," ","r","e","a","l","-","t","i","m","e"," ","'","W","a","y","f","i","n","d","i","n","g","'"," ","f","o","r"," ","c","e","r","e","m","o","n","y","/","c","o","m","p","e","t","i","t","i","o","n"," ","r","o","o","m","s",".">>) >>)

\* lines 48-52
Recommendations ==
    PyList(<<
      PyStr(<<"I","m","p","l","e","m","e","n","t"," ","a"," ","'","C","e","r","e","m","o","n","y"," ","F","o","c","u","s"," ","M","o","d","e","'"," ","t","o"," ","r","e","w","a","r","d"," ","a","t","t","e","n","t","i","o","n",".">>),
      PyStr(<<"C","r","e","a","t","e"," ","a"," ","'","D","i","g","i","t","a","l"," ","P","i","n"," ","M","a","r","k","e","t","p","l","a","c","e","'"," ","t","o"," ","s","u","p","p","l","e","m","e","n","t"," ","p","h","y","s","i","c","a","l"," ","t","r","a","d","i","n","g",".">>),
      PyStr(<<"P","r","o","v","i","d","e"," ","r","e","a","l","-","t","i","m","e"," ","'","W","a","y","f","i","n","d","i","n","g","'"," ","f","o","r"," ","c","e","r","e","m","o","n","y","/","c","o","m","p","e","t","i","t","i","o","n"," ","r","o","o","m","s",".">>) >>)

\* the dict display of lines 16-53
ReportLiteral ==
    PyDict(<<
      KV(<<"m","e","t","a","d","a","t","a">>, Metadata),
      KV(<<"f","i","n","d","i","n","g","s">>, Findings),
      KV(<<"r","e","c","o","m","m","e","n","d","a","t","i","o","n","s">>, Recommendations) >>)

\* ------------------------------------------------------------------ state
VARIABLES
    pc,       \* pc[r]: the line run r executes next
    name,     \* name[r]: __name__ of the module in run r
    clock,    \* clock[r]: time units run r has spent in time.sleep
    stdout,   \* stdout[r]: the writes run r made to standard output
    heap,     \* the objects constructed so far, by reference
    report,   \* report[r]: the local variable of the generator (0: unbound)
    results,  \* results[r]: the variable of the entry point (0: unbound)
    got,      \* got[r]: what an importing caller received, call by call: the
              \* reference, the value it had on return, the time, the number
              \* of writes made and of mutations applied by then
    muts,     \* muts[r]: mutations an importing caller has applied
    exit      \* exit[r]: exit status of the run (-1: still running)

vars == <<pc, name, clock, stdout, heap, report, results, got, muts, exit>>

\* --------------------------------------------------------------- helpers
\* every run writes to the stream of run 1
PyPrintShared(r, chars) ==
    stdout' = [stdout EXCEPT ![1] = Append(@, [at |-> clock[r], data |-> chars \o <<NL>>])]

\* print(s): one write of the characters of s followed by a newline
PyPrint(r, chars) ==
    stdout' = [stdout EXCEPT ![r] = Append(@, [at |-> clock[r], data |-> chars \o <<NL>>])]

\* time.sleep(n): the run is blocked for n time units
Sleep(r, n) == clock' = [clock EXCEPT ![r] = @ + n]

\* one object built by the first call and handed out again by every later call
ConstructCached(h, v) ==
    IF h = <<>> THEN [heap |-> <<v>>, ref |-> 1] ELSE [heap |-> h, ref |-> 1]

\* evaluating a display constructs a new object: a reference never handed
\* out before
Construct(h, v) == [heap |-> Append(h, v), ref |-> Len(h) + 1]

Goto(r, l) == pc' = [pc EXCEPT ![r] = l]

BannerShort == Repeat("=", 39)
Banner == Repeat("=", 40)
Title == <<"F","B","L","A"," ","M","E","M","B","E","R"," ","E","N","G","A","G","E","M","E","N","T"," ","A","N","A","L","Y","S","I","S"," ","R","E","P","O","R","T">>
Completion == <<"R","E","P","O","R","T"," ","C","O","M","P","L","E","T","E",":"," ","R","e","a","d","y"," ","f","o","r"," ","J","u","d","g","e"," ","R","e","v","i","e","w",".">>
Progress1 == <<"I","n","i","t","i","a","l","i","z","n","g"," ","F","B","L","A"," ","F","e","e","d","b","a","c","k"," ","S","c","a","n","n","e","r"," ","v","1",".","0",".",".",".">>
Progress2 == <<"S","c","a","n","n","i","n","g"," ","r","/","F","B","L","A"," ","a","n","d"," ","F","B","L","A"," ","C","o","n","n","e","c","t"," ","d","i","s","c","u","s","s","i","o","n","s",".",".",".">>
Progress3 == <<"E","x","t","r","a","c","t","i","n","g"," ","k","e","y"," ","p","a","i","n"," ","p","o","i","n","t","s"," ","a","n","d"," ","e","n","g","a","g","e","m","e","n","t"," ","m","e","t","r","i","c","s",".",".",".">>

\* ------------------------------------------------------------- json.dumps
\* the printable ASCII characters in code order: " " (32) to "_" (95) and
\* "a" (97) to "~" (126); the grave accent (96) is not a character of the model
AsciiLow == <<" ","!">> \o <<QUOTE>> \o <<"#","$","%","&","'","(",")","*","+",",","-",".","/","0","1","2","3","4","5","6","7","8","9",":",";","<","=",">","?","@","A","B","C","D","E","F","G","H","I","J","K","L","M","N","O","P","Q","R","S","T","U","V","W","X","Y","Z","[">> \o <<BACKSLASH>> \o <<"]","^","_">>
AsciiHigh == <<"a","b","c","d","e","f","g","h","i","j","k","l","m","n","o","p","q","r","s","t","u","v","w","x","y","z","{","|","}","~">>

\* ord(c); a newline is the only control character of the model
Ord(c) ==
    IF c = NL THEN 10
    ELSE IF \E i \in 1..Len(AsciiLow) : AsciiLow[i] = c
    THEN 31 + CHOOSE i \in 1..Len(AsciiLow) : AsciiLow[i] = c
    ELSE 96 + CHOOSE i \in 1..Len(AsciiHigh) : AsciiHigh[i] = c

\* a < b for two str, as Python compares them
RECURSIVE StrLess(_, _)
StrLess(a, b) ==
    IF a = <<>> THEN b # <<>>
    ELSE IF b = <<>> THEN FALSE
    ELSE IF Head(a) = Head(b) THEN StrLess(Tail(a), Tail(b))
    ELSE Ord(Head(a)) < Ord(Head(b))

\* sorted(pairs) by key (insertion sort; keys of a dict are distinct)
RECURSIVE SortPairs(_)
SortPairs(pairs) ==
    IF pairs = <<>> THEN <<>>
    ELSE LET rest == SortPairs(Tail(pairs))
             p == Head(pairs)
             n == Cardinality({i \in 1..Len(rest) : StrLess(rest[i].k, p.k)})
         IN SubSeq(rest, 1, n) \o <<p>> \o SubSeq(rest, n + 1, Len(rest))

\* no character: the place of a character that is left out
NOCHAR == ""
IsChar(c) == c # NOCHAR

\* the escape of one character inside a JSON string: a backslash or
\* nothing, then a character
EscapeChar(c) ==
    IF c = QUOTE THEN <<BACKSLASH, QUOTE>>
    ELSE IF c = BACKSLASH THEN <<BACKSLASH, BACKSLASH>>
    ELSE IF c = NL THEN <<BACKSLASH, "n">>
    ELSE <<NOCHAR, c>>

\* the escapes of the characters of a str, in order (cs is chars, bound to
\* its value once); a str without a character to escape is left as it is
EscapeChars(chars) ==
    CHOOSE out \in
        { IF \A i \in 1..Len(cs) : cs[i] \notin {QUOTE, BACKSLASH, NL}
          THEN cs
          ELSE SelectSeq([n \in 1..(2 * Len(cs)) |->
                            EscapeChar(cs[(n + 1) \div 2])[2 - (n % 2)]], IsChar)
          : cs \in {chars} } : TRUE

\* a str as a JSON string
EncodeStr(chars) == <<QUOTE>> \o EscapeChars(chars) \o <<QUOTE>>

\* the newline and indentation that precede an item at a nesting level
NewlineIndent(indent, level) == <<NL>> \o Repeat(SPACE, indent * level)

\* what json.dumps accepts: str, list and dict with str keys, nested
RECURSIVE Serializable(_)
Serializable(v) ==
    \/ v.t = "str"
    \/ /\ v.t = "list"
       /\ \A i \in 1..Len(v.items) : Serializable(v.items[i])
    \/ /\ v.t = "dict"
       /\ \A i \in 1..Len(v.items) : Serializable(v.items[i].v)

\* the text of a serializable value at a nesting level: with an indent the
\* item separator is "," and the key separator ": "
RECURSIVE Encode(_, _, _, _)
RECURSIVE EncodeItems(_, _, _, _, _, _)
Encode(v, indent, level, sort_keys) ==
    IF v.t = "str" THEN EncodeStr(v.s)
    ELSE IF v.t = "list"
    THEN IF v.items = <<>> THEN <<"[","]">>
         ELSE <<"[">> \o EncodeItems(v.items, 1, FALSE, indent, level + 1, sort_keys)
                  \o NewlineIndent(indent, level) \o <<"]">>
    ELSE IF v.items = <<>> THEN <<"{","}">>
         ELSE <<"{">> \o EncodeItems(IF sort_keys THEN SortPairs(v.items) ELSE v.items,
                                  1, TRUE, indent, level + 1, sort_keys)
                  \o NewlineIndent(indent, level) \o <<"}">>

EncodeItems(items, i, pairs, indent, level, sort_keys) ==
    IF i > Len(items) THEN <<>>
    ELSE (IF i > 1 THEN <<",">> ELSE <<>>)
         \o NewlineIndent(indent, level)
         \o (IF pairs
             THEN EncodeStr(items[i].k) \o <<":"," ">>
                  \o Encode(items[i].v, indent, level, sort_keys)
             ELSE Encode(items[i], indent, level, sort_keys))
         \o EncodeItems(items, i + 1, pairs, indent, level, sort_keys)

\* json.dumps(v, indent=indent, sort_keys=True)
DumpsSortKeys(v, indent) == Encode(v, indent, 0, TRUE)

\* json.dumps(v, indent=indent), sort_keys left at its default False
Dumps(v, indent) == Encode(v, indent, 0, FALSE)

\* ------------------------------------------------------------- json.loads
JSONDecodeError == [t |-> "error", s |-> <<>>, items |-> <<>>]
Whitespace == {SPACE, NL}

\* the first position at or after i that holds no whitespace
SkipWS(text, i) ==
    CHOOSE j \in i..(Len(text) + 1) :
        /\ j = Len(text) + 1 \/ text[j] \notin Whitespace
        /\ \A m \in i..(j - 1) : text[m] \in Whitespace

Failed(text) == [v |-> JSONDecodeError, next |-> Len(text) + 1]

\* the number of consecutive backslashes that end just before position p,
\* none of them before position i
BackslashRun(text, i, p) ==
    CHOOSE m \in 0..(p - i) :
        /\ \A q \in 1..m : text[p - q] = BACKSLASH
        /\ m = p - i \/ text[p - m - 1] # BACKSLASH

\* position p, at or after i, holds a character that a backslash escapes
Escaped(text, i, p) == BackslashRun(text, i, p) % 2 = 1

\* the closing quote of the JSON string whose characters start at position i
\* (Len(text) + 1 if it is not closed)
ClosingQuote(text, i) ==
    CHOOSE j \in i..(Len(text) + 1) :
        /\ j = Len(text) + 1 \/ (text[j] = QUOTE /\ ~Escaped(text, i, j))
        /\ \A m \in i..(j - 1) : ~(text[m] = QUOTE /\ ~Escaped(text, i, m))

\* what the character at position p of a JSON string stands for: nothing
\* for the backslash that starts an escape, the escaped character after it
UnescapeAt(text, i, p) ==
    IF Escaped(text, i, p)
    THEN IF text[p] = "n" THEN NL ELSE text[p]
    ELSE IF text[p] = BACKSLASH THEN NOCHAR
    ELSE text[p]

\* the JSON string whose opening quote precedes position i; characters
\* without a backslash among them stand for themselves
ParseString(text, i) ==
    CHOOSE res \in
      { IF j > Len(text) \/ \E p \in i..(j - 1) : text[p] = NL
        THEN Failed(text)
        ELSE IF \A p \in i..(j - 1) : text[p] # BACKSLASH
        THEN [v |-> PyStr(SubSeq(text, i, j - 1)), next |-> j + 1]
        ELSE IF \E p \in i..(j - 1) :
                  Escaped(text, i, p) /\ text[p] \notin {QUOTE, BACKSLASH, "/", "n"}
        THEN Failed(text)
        ELSE [v |-> PyStr(SelectSeq([n \in 1..(j - i) |-> UnescapeAt(text, i, i + n - 1)],
                                    IsChar)),
              next |-> j + 1]
        : j \in {ClosingQuote(text, i)} } : TRUE

RECURSIVE ParseValue(_, _)
RECURSIVE ParseArray(_, _, _)
RECURSIVE ParseObject(_, _, _)
\* the value that starts at position i
ParseValue(text, i) ==
    IF i > Len(text) THEN Failed(text)
    ELSE IF text[i] = QUOTE THEN ParseString(text, i + 1)
    ELSE IF text[i] = "["
    THEN CHOOSE res \in
           { IF j <= Len(text) /\ text[j] = "]"
             THEN [v |-> PyList(<<>>), next |-> j + 1]
             ELSE ParseArray(text, j, <<>>)
             : j \in {SkipWS(text, i + 1)} } : TRUE
    ELSE IF text[i] = "{"
    THEN CHOOSE res \in
           { IF j <= Len(text) /\ text[j] = "}"
             THEN [v |-> PyDict(<<>>), next |-> j + 1]
             ELSE ParseObject(text, j, PyDict(<<>>))
             : j \in {SkipWS(text, i + 1)} } : TRUE
    ELSE Failed(text)

\* the array whose next element e was parsed, acc the elements before it
ArrayAfter(text, acc, e, j) ==
    IF e.v.t = "error" \/ j > Len(text) THEN Failed(text)
    ELSE IF text[j] = "," THEN ParseArray(text, SkipWS(text, j + 1), Append(acc, e.v))
    ELSE IF text[j] = "]" THEN [v |-> PyList(Append(acc, e.v)), next |-> j + 1]
    ELSE Failed(text)

\* the elements of an array from position i on, acc the elements before
ParseArray(text, i, acc) ==
    CHOOSE res \in
      { ArrayAfter(text, acc, e, SkipWS(text, e.next))
        : e \in {ParseValue(text, i)} } : TRUE

\* the object whose next value e was parsed under a key, acc the dict built
\* before; a repeated key keeps its place and takes the later value
ObjectAfter(text, acc, key, e, j) ==
    IF e.v.t = "error" \/ j > Len(text) THEN Failed(text)
    ELSE IF text[j] = ","
    THEN ParseObject(text, SkipWS(text, j + 1), DictSet(acc, key.v.s, e.v))
    ELSE IF text[j] = "}" THEN [v |-> DictSet(acc, key.v.s, e.v), next |-> j + 1]
    ELSE Failed(text)

\* the pairs of an object from position i on, acc the dict built before
ParseObject(text, i, acc) ==
    IF i > Len(text) \/ text[i] # QUOTE THEN Failed(text)
    ELSE CHOOSE res \in
      { CHOOSE res2 \in
          { IF key.v.t = "error" \/ c > Len(text) \/ text[c] # ":" THEN Failed(text)
            ELSE CHOOSE res3 \in
                   { ObjectAfter(text, acc, key, e, SkipWS(text, e.next))
                     : e \in {ParseValue(text, SkipWS(text, c + 1))} } : TRUE
            : c \in {SkipWS(text, key.next)} } : TRUE
        : key \in {ParseString(text, i + 1)} } : TRUE

\* json.loads(text): the value, or the error raised for text that is not
\* one JSON value
Loads(text) ==
    CHOOSE res \in
      { IF e.v.t = "error" \/ SkipWS(text, e.next) # Len(text) + 1
        THEN JSONDecodeError
        ELSE e.v
        : e \in {ParseValue(text, SkipWS(text, 1))} } : TRUE

\* ------------------------------------------------------------------- Init
InitCommon ==
    /\ pc = [r \in Runs |-> "l56"]
    /\ clock = [r \in Runs |-> 0]
    /\ stdout = [r \in Runs |-> <<>>]
    /\ heap = <<>>
    /\ report = [r \in Runs |-> 0]
    /\ results = [r \in Runs |-> 0]
    /\ got = [r \in Runs |-> <<>>]
    /\ muts = [r \in Runs |-> 0]
    /\ exit = [r \in Runs |-> -1]

\* the file is run as a program
Init == InitCommon /\ name = [r \in Runs |-> "__main__"]

\* the file is imported as a module by the process of a caller, run 1; no
\* other run takes a step in that specification
Callers == {1}
InitCaller == InitCommon /\ name = [r \in Runs |-> "feedback_scanner"]

\* ---------------------------------------------------------- the generator
\* line 9
L9(r) ==
    /\ pc[r] = "l9"
    /\ PyPrint(r, Progress1)
    /\ Goto(r, "l10")
    /\ UNCHANGED <<name, clock, heap, report, results, got, muts, exit>>

\* line 10
L10(r) ==
    /\ pc[r] = "l10"
    /\ Sleep(r, 1)
    /\ Goto(r, "l11")
    /\ UNCHANGED <<name, stdout, heap, report, results, got, muts, exit>>

\* line 11
L11(r) ==
    /\ pc[r] = "l11"
    /\ PyPrint(r, Progress2)
    /\ Goto(r, "l12")
    /\ UNCHANGED <<name, clock, heap, report, results, got, muts, exit>>

\* line 12 without its pause
L12NoSleep(r) ==
    /\ pc[r] = "l12"
    /\ Goto(r, "l13")
    /\ UNCHANGED <<name, clock, stdout, heap, report, results, got, muts, exit>>

\* line 12
L12(r) ==
    /\ pc[r] = "l12"
    /\ Sleep(r, 1)
    /\ Goto(r, "l13")
    /\ UNCHANGED <<name, stdout, heap, report, results, got, muts, exit>>

\* line 13
L13(r) ==
    /\ pc[r] = "l13"
    /\ PyPrint(r, Progress3)
    /\ Goto(r, "l14")
    /\ UNCHANGED <<name, clock, heap, report, results, got, muts, exit>>

\* line 14
L14(r) ==
    /\ pc[r] = "l14"
    /\ Sleep(r, 1)
    /\ Goto(r, "l16")
    /\ UNCHANGED <<name, stdout, heap, report, results, got, muts, exit>>

\* lines 16-53: report = { ... }
L16(r) ==
    /\ pc[r] = "l16"
    /\ LET c == Construct(heap, ReportLiteral)
       IN /\ heap' = c.heap
          /\ report' = [report EXCEPT ![r] = c.ref]
    /\ Goto(r, "l54")
    /\ UNCHANGED <<name, clock, stdout, results, got, muts, exit>>

\* line 54: return report, to the entry point (line 57, which binds results)
\* or to an importing caller
L54(r) ==
    /\ pc[r] = "l54"
    /\ IF name[r] = "__main__"
       THEN /\ results' = [results EXCEPT ![r] = report[r]]
            /\ Goto(r, "l58")
            /\ UNCHANGED got
       ELSE /\ got' = [got EXCEPT ![r] =
                         Append(@, [ref |-> report[r], val |-> heap[report[r]],
                                    at |-> clock[r], nwrites |-> Len(stdout[r]),
                                    muts |-> muts[r]])]
            /\ Goto(r, "idle")
            /\ UNCHANGED results
    /\ report' = [report EXCEPT ![r] = 0]
    /\ UNCHANGED <<name, clock, stdout, heap, muts, exit>>

\* ------------------------------------------------------- the entry point
\* line 56: if __name__ == "__main__"
L56(r) ==
    /\ pc[r] = "l56"
    /\ IF name[r] = "__main__" THEN Goto(r, "l57") ELSE Goto(r, "idle")
    /\ UNCHANGED <<name, clock, stdout, heap, report, results, got, muts, exit>>

\* line 57: the call of get_fbla_feedback_report()
L57(r) ==
    /\ pc[r] = "l57"
    /\ Goto(r, "l9")
    /\ UNCHANGED <<name, clock, stdout, heap, report, results, got, muts, exit>>

\* line 58
L58(r) ==
    /\ pc[r] = "l58"
    /\ PyPrint(r, <<NL>> \o Banner)
    /\ Goto(r, "l59")
    /\ UNCHANGED <<name, clock, heap, report, results, got, muts, exit>>

\* line 59 with the message of line 63
L59Completion(r) ==
    /\ pc[r] = "l59"
    /\ PyPrint(r, Completion)
    /\ Goto(r, "l60")
    /\ UNCHANGED <<name, clock, heap, report, results, got, muts, exit>>

\* line 59
L59(r) ==
    /\ pc[r] = "l59"
    /\ PyPrint(r, Title)
    /\ Goto(r, "l60")
    /\ UNCHANGED <<name, clock, heap, report, results, got, muts, exit>>

\* line 60
L60(r) ==
    /\ pc[r] = "l60"
    /\ PyPrint(r, Banner)
    /\ Goto(r, "l61")
    /\ UNCHANGED <<name, clock, heap, report, results, got, muts, exit>>

\* line 61: json.dumps raises TypeError for a value it cannot serialize;
\* the exception is not caught and ends the run with status 1
L61(r) ==
    /\ pc[r] = "l61"
    /\ IF Serializable(heap[results[r]])
       THEN /\ PyPrint(r, Dumps(heap[results[r]], 2))
            /\ Goto(r, "l62")
            /\ UNCHANGED exit
       ELSE /\ Goto(r, "error")
            /\ exit' = [exit EXCEPT ![r] = 1]
            /\ UNCHANGED stdout
    /\ UNCHANGED <<name, clock, heap, report, results, got, muts>>

\* line 62
L62(r) ==
    /\ pc[r] = "l62"
    /\ PyPrint(r, Banner)
    /\ Goto(r, "l63")
    /\ UNCHANGED <<name, clock, heap, report, results, got, muts, exit>>

\* line 63, the last statement: the interpreter then exits with status 0
L63(r) ==
    /\ pc[r] = "l63"
    /\ PyPrint(r, <<NL>> \o Completion)
    /\ Goto(r, "done")
    /\ exit' = [exit EXCEPT ![r] = 0]
    /\ UNCHANGED <<name, clock, heap, report, results, got, muts>>

Generator(r) ==
    \/ L9(r) \/ L10(r) \/ L11(r) \/ L12(r) \/ L13(r) \/ L14(r) \/ L16(r) \/ L54(r)

Main(r) ==
    \/ L56(r) \/ L57(r) \/ L58(r) \/ L59(r) \/ L60(r) \/ L61(r) \/ L62(r) \/ L63(r)

Run(r) == Main(r) \/ Generator(r)

Next == \E r \in Runs : Run(r)

Spec == Init /\ [][Next]_vars

\* every run that can take a step eventually takes one
FairSpec == Spec /\ \A r \in Runs : WF_vars(Run(r))

\* ------------------------------------------------------ an importing caller
\* what a caller can do to a report it holds: the dict and the lists in it
\* are mutable objects
Mutations == {"clear", "del_metadata", "clear_findings", "set_sentiment", "append_recommendation"}

HasKey(d, key) == \E i \in 1..Len(d.items) : d.items[i].k = key

\* del d[key]
DictDel(d, key) ==
    LET keep == {i \in 1..Len(d.items) : d.items[i].k # key}
    IN PyDict([n \in 1..Cardinality(keep) |->
                 d.items[CHOOSE i \in keep : Cardinality({j \in keep : j < i}) = n - 1]])

\* the report d after mutation m; a mutation whose target is gone raises
\* in the caller and leaves d as it is
Mutate(d, m) ==
    IF m = "clear" THEN PyDict(<<>>)
    ELSE IF m = "del_metadata" THEN DictDel(d, <<"m","e","t","a","d","a","t","a">>)
    ELSE IF m = "clear_findings" /\ HasKey(d, <<"f","i","n","d","i","n","g","s">>)
    THEN DictSet(d, <<"f","i","n","d","i","n","g","s">>, PyList(<<>>))
    ELSE IF m = "set_sentiment" /\ HasKey(d, <<"f","i","n","d","i","n","g","s">>)
                                /\ DictGet(d, <<"f","i","n","d","i","n","g","s">>).items # <<>>
    THEN LET fs == DictGet(d, <<"f","i","n","d","i","n","g","s">>).items
         IN DictSet(d, <<"f","i","n","d","i","n","g","s">>,
                    PyList([fs EXCEPT ![1] = DictSet(@, <<"s","e","n","t","i","m","e","n","t">>, PyStr(<<"P","o","s","i","t","i","v","e">>))]))
    ELSE IF m = "append_recommendation" /\ HasKey(d, <<"r","e","c","o","m","m","e","n","d","a","t","i","o","n","s">>)
    THEN DictSet(d, <<"r","e","c","o","m","m","e","n","d","a","t","i","o","n","s">>,
                 PyList(Append(DictGet(d, <<"r","e","c","o","m","m","e","n","d","a","t","i","o","n","s">>).items, PyStr(<<"M","o","r","e"," ","p","i","n","s",".">>))))
    ELSE d

\* the caller calls get_fbla_feedback_report()
CallerCall(r) ==
    /\ pc[r] = "idle"
    /\ Len(got[r]) < MaxCalls
    /\ Goto(r, "l9")
    /\ UNCHANGED <<name, clock, stdout, heap, report, results, got, muts, exit>>

\* the caller mutates a report an earlier call returned to it
CallerMutate(r) ==
    /\ pc[r] = "idle"
    /\ muts[r] < MaxMutations
    /\ \E i \in 1..Len(got[r]), m \in Mutations :
         heap' = [heap EXCEPT ![got[r][i].ref] = Mutate(@, m)]
    /\ muts' = [muts EXCEPT ![r] = @ + 1]
    /\ UNCHANGED <<pc, name, clock, stdout, report, results, got, exit>>

Caller(r) == L56(r) \/ CallerCall(r) \/ CallerMutate(r)

NextCaller == \E r \in Callers : Caller(r) \/ Generator(r)

SpecCaller == InitCaller /\ [][NextCaller]_vars

\* ------------------------------------------------- standard output, by line
\* all the characters run r has written
RECURSIVE TextOf(_, _)
TextOf(writes, n) == IF n = 0 THEN <<>> ELSE TextOf(writes, n - 1) \o writes[n].data

Text(r) == TextOf(stdout[r], Len(stdout[r]))

\* the positions of text that hold a newline, in order
IsPosition(n) == n > 0
NewlinePositions(text) ==
    SelectSeq([i \in 1..Len(text) |-> IF text[i] = NL THEN i ELSE 0], IsPosition)

\* the lines of text that a newline ends, without the newline
Lines(text) ==
    CHOOSE L \in
      { [k \in 1..Len(P) |-> SubSeq(t, IF k = 1 THEN 1 ELSE P[k - 1] + 1, P[k] - 1)]
        : <<t, P>> \in {<<text, NewlinePositions(text)>>} } : TRUE

\* a line of 40 "=" characters
IsBanner(line) == Len(line) = 40 /\ \A i \in 1..Len(line) : line[i] = "="

\* the positions of the lines of L that satisfy a test
BannerLines(L) == {i \in 1..Len(L) : IsBanner(L[i])}
LinesEqual(L, line) == {i \in 1..Len(L) : L[i] = line}

\* ------------------------------------------------------------------ claims

\* C1: every call of the generator returns a Report equal to the one the
\* first call returned, however many calls went before and whatever the
\* caller did to the Reports it was given earlier.
C1_SameReportEveryCall ==
    \A r \in Runs : \A i \in 1..Len(got[r]) : got[r][i].val = got[r][1].val

\* a second call that returned after the caller had mutated the first Report
C1_Witness ==
    \E r \in Runs :
        /\ Len(got[r]) >= 2
        /\ got[r][2].muts >= 1
        /\ heap[got[r][1].ref] # got[r][1].val

\* C2 as stated: the output is three progress lines, the banner twice, the
\* title, the body and the completion line; the banner appears exactly twice
\* and both times before the title.
C2_Original ==
    \A r \in Runs : pc[r] = "done" =>
        \A L \in {Lines(Text(r))}, body \in {Lines(Dumps(heap[results[r]], 2) \o <<NL>>)} :
           /\ L = <<Progress1, Progress2, Progress3, Banner, Banner, Title>>
                    \o body \o <<Completion>>
           /\ Cardinality(BannerLines(L)) = 2
           /\ \A b \in BannerLines(L) : \A t \in LinesEqual(L, Title) : b < t

\* C2 amended: the output of a finished run is three progress lines, an
\* empty line, the banner, the title, the banner, the serialized body, the
\* banner, an empty line and the completion line; the banner (40 "="
\* characters) appears exactly three times: once before the title, once
\* between the title and the body, once after the body.
C2_OutputLayout ==
    \A r \in Runs : pc[r] = "done" =>
        \A L \in {Lines(Text(r))}, body \in {Lines(Dumps(heap[results[r]], 2) \o <<NL>>)} :
        LET n == Len(L)
        IN /\ n = 7 + Len(body) + 3
           /\ SubSeq(L, 1, 3) = <<Progress1, Progress2, Progress3>>
           /\ L[4] = <<>>
           /\ L[6] = Title
           /\ SubSeq(L, 8, n - 3) = body
           /\ L[n - 1] = <<>>
           /\ L[n] = Completion
           /\ BannerLines(L) = {5, 7, n - 2}

\* a finished run
C2_Witness == \E r \in Runs : pc[r] = "done" /\ Len(stdout[r]) = 9

\* C3: the title line is written, the completion line is written strictly
\* later and never before the title, and once written it is the last line.
C3_TitleBeforeCompletion ==
    \A r \in Runs :
        \A L \in {Lines(Text(r))} :
        LET T == LinesEqual(L, Title)
            C == LinesEqual(L, Completion)
        IN /\ \A c \in C : T # {} /\ \A t \in T : t < c
           /\ C # {} => L[Len(L)] = Completion
           /\ pc[r] = "done" => T # {} /\ C # {}

\* a run that has written both lines
C3_Witness ==
    \E r \in Runs :
        /\ LinesEqual(Lines(Text(r)), Title) # {}
        /\ LinesEqual(Lines(Text(r)), Completion) # {}

\* C4: a returned Report has exactly 4 findings and 3 recommendations.
C4_Lengths ==
    \A r \in Runs : \A i \in 1..Len(got[r]) :
        LET rep == got[r][i].val
        IN /\ DictGet(rep, <<"f","i","n","d","i","n","g","s">>).t = "list"
           /\ Len(DictGet(rep, <<"f","i","n","d","i","n","g","s">>).items) = 4
           /\ DictGet(rep, <<"r","e","c","o","m","m","e","n","d","a","t","i","o","n","s">>).t = "list"
           /\ Len(DictGet(rep, <<"r","e","c","o","m","m","e","n","d","a","t","i","o","n","s">>).items) = 3

\* a call has returned
C4_Witness == \E r \in Runs : Len(got[r]) >= 1 /\ pc[r] = "idle"

\* C5: the sentiment of every finding of a returned Report is one of
\* "Negative", "Critical", "Mixed".
C5_Sentiments ==
    \A r \in Runs : results[r] # 0 =>
        LET fs == DictGet(heap[results[r]], <<"f","i","n","d","i","n","g","s">>).items
        IN \A i \in 1..Len(fs) :
             DictGet(fs[i], <<"s","e","n","t","i","m","e","n","t">>) \in
                 {PyStr(<<"N","e","g","a","t","i","v","e">>), PyStr(<<"C","r","i","t","i","c","a","l">>), PyStr(<<"M","i","x","e","d">>)}

\* the entry point holds a Report that has findings
C5_Witness ==
    \E r \in Runs :
        /\ results[r] # 0
        /\ DictGet(heap[results[r]], <<"f","i","n","d","i","n","g","s">>).items # <<>>

\* C6: metadata.search_categories of a returned Report is the sequence
\* "Engagement", "Events", "Judging", "Logistics".
C6_SearchCategories ==
    \A r \in Runs : results[r] # 0 =>
        DictGet(DictGet(heap[results[r]], <<"m","e","t","a","d","a","t","a">>), <<"s","e","a","r","c","h","_","c","a","t","e","g","o","r","i","e","s">>)
            = PyList(<< PyStr(<<"E","n","g","a","g","e","m","e","n","t">>), PyStr(<<"E","v","e","n","t","s">>),
                        PyStr(<<"J","u","d","g","i","n","g">>), PyStr(<<"L","o","g","i","s","t","i","c","s">>) >>)

\* the entry point holds a Report and has started to print
C6_Witness == \E r \in Runs : results[r] # 0 /\ pc[r] = "l59"

\* C7: no run reaches an error state, and every run ends with exit status
\* 0, the completion line being the last thing it wrote.
C7_TerminatesInSuccess ==
    /\ [](\A r \in Runs : pc[r] # "error" /\ exit[r] \in {-1, 0})
    /\ <>(\A r \in Runs :
            /\ pc[r] = "done"
            /\ exit[r] = 0
            /\ stdout[r][Len(stdout[r])].data = <<NL>> \o Completion \o <<NL>>)

\* every run has ended with status 0
C7_Witness == \A r \in Runs : pc[r] = "done" /\ exit[r] = 0

\* C8: the printed body, parsed back, is the Report: same keys in the same
\* order, same elements in the same order.
C8_RoundTrip ==
    \A r \in Runs : pc[r] = "l62" =>
        Loads(stdout[r][Len(stdout[r])].data) = heap[results[r]]

\* a run has printed the body
C8_Witness == \E r \in Runs : pc[r] = "l62" /\ Len(stdout[r]) = 7

\* what a run alone writes, write by write
SoloWrites ==
    << [at |-> 0, data |-> Progress1 \o <<NL>>],
       [at |-> 1, data |-> Progress2 \o <<NL>>],
       [at |-> 2, data |-> Progress3 \o <<NL>>],
       [at |-> 3, data |-> <<NL>> \o Banner \o <<NL>>],
       [at |-> 3, data |-> Title \o <<NL>>],
       [at |-> 3, data |-> Banner \o <<NL>>],
       [at |-> 3, data |-> Dumps(ReportLiteral, 2) \o <<NL>>],
       [at |-> 3, data |-> Banner \o <<NL>>],
       [at |-> 3, data |-> <<NL>> \o Completion \o <<NL>> ] >>

\* C9: in any interleaving each run writes what it writes alone and holds
\* the Report it holds alone, two runs at the same line are in the same
\* state, and no object is held by two runs.
C9_RunsIndependent ==
    /\ \A r \in Runs :
         /\ stdout[r] = SubSeq(SoloWrites, 1, Len(stdout[r]))
         /\ results[r] # 0 => heap[results[r]] = ReportLiteral
         /\ report[r] # 0 => heap[report[r]] = ReportLiteral
    /\ \A r, q \in Runs : r # q =>
         /\ pc[r] = pc[q] =>
              /\ stdout[r] = stdout[q]
              /\ clock[r] = clock[q]
              /\ exit[r] = exit[q]
              /\ (results[r] = 0) = (results[q] = 0)
              /\ (report[r] = 0) = (report[q] = 0)
         /\ {results[r], report[r]} \cap {results[q], report[q]} \subseteq {0}

\* one run prints its Report while another is still inside the generator
C9_Witness ==
    \E r, q \in Runs : pc[r] = "l62" /\ pc[q] = "l12" /\ results[r] # 0

\* C10: each call writes the three progress lines in order, one time unit
\* apart, returns after the third, and writes nothing else.
C10_ProgressLines ==
    \A r \in Runs :
        /\ \A n \in 1..Len(stdout[r]) :
             /\ stdout[r][n].data =
                  (IF n % 3 = 1 THEN Progress1
                   ELSE IF n % 3 = 2 THEN Progress2 ELSE Progress3) \o <<NL>>
             /\ n % 3 # 1 => stdout[r][n].at = stdout[r][n - 1].at + 1
        /\ \A k \in 1..Len(got[r]) :
             /\ got[r][k].nwrites = 3 * k
             /\ got[r][k].at >= stdout[r][3 * k].at
        /\ pc[r] = "idle" => Len(stdout[r]) = 3 * Len(got[r])

\* two calls have returned
C10_Witness == \E r \in Runs : Len(got[r]) >= 2 /\ Len(stdout[r]) >= 6

====
